---------------------------- MODULE Spec2Model ----------------------------
(***************************************************************************)
(* Model of the Banking Fraud Detection API                                *)
(*   src/banking_fraud_api_clean/src/banking_fraud_api/api/main.py         *)
(*   src/banking_fraud_api_clean/src/banking_fraud_api/core/config.py      *)
(*                                                                         *)
(* Representation of Python values                                         *)
(*   str    a sequence of one-character strings, so that str.lower() and   *)
(*          the substring test "x in s" are computed, not looked up.       *)
(*   None   the value NoneVal.                                             *)
(*   float  scores and tier thresholds are IEEE-754 doubles.  A double is  *)
(*          written as an integer in hundredths: the tens count the        *)
(*          nearest tenth (0.3 is 30, 1.0 is 100) and the units count how  *)
(*          many ulps the double lies above the double nearest to that     *)
(*          tenth (0.2 + 0.4 = 0.6000000000000001 is 61).  Integer order   *)
(*          on these codes is the order of the doubles.                    *)
(*   amount a whole number of currency units.                              *)
(***************************************************************************)
EXTENDS Integers, Sequences, FiniteSets, TLC

VARIABLES settings, op, request, requests, status, response, results, evaluated

\* the HTTP requests in flight through the middleware add_correlation_id:
\*   mw_pc           where the middleware stands for each request
\*   correlation_id  the local variable correlation_id of the middleware
\*   state_cid       request.state.correlation_id, per state object
\*   body            the body the endpoint returned
\*   header          the X-Correlation-ID header of the response
\*   issued          the values uuid.uuid4() has returned so far
VARIABLES mw_pc, correlation_id, state_cid, body, header, issued

svcVars == <<settings, op, request, requests, status, response, results, evaluated>>

corrVars == <<mw_pc, correlation_id, state_cid, body, header, issued>>

vars == <<svcVars, corrVars>>

----------------------------------------------------------------------------
(* Bounds of the model *)

\* batches of 0..SmallBatch items are enumerated besides the ones at the limit
SmallBatch == 3

\* an exception is injected at item 1..MaxFaultPos of a batch (0: none)
MaxFaultPos == 2

\* HTTP requests in flight at the same time
MaxRequests == 2

----------------------------------------------------------------------------
(* Python values *)

NoneVal == <<"None">>

UpperCase == <<"A","B","C","D","E","F","G","H","I","J","K","L","M",
               "N","O","P","Q","R","S","T","U","V","W","X","Y","Z">>

LowerCase == <<"a","b","c","d","e","f","g","h","i","j","k","l","m",
               "n","o","p","q","r","s","t","u","v","w","x","y","z">>

\* str.lower() on one character
LowerChar(c) ==
    IF \E i \in 1..Len(UpperCase) : UpperCase[i] = c
    THEN LowerCase[CHOOSE i \in 1..Len(UpperCase) : UpperCase[i] = c]
    ELSE c

\* str.lower()
Lower(s) == [i \in 1..Len(s) |-> LowerChar(s[i])]

\* sub in s
Contains(sub, s) ==
    \E i \in 0..(Len(s) - Len(sub)) : SubSeq(s, i + 1, i + Len(sub)) = sub

\* truth value of an Optional[str]: None and "" are false
Truthy(s) == s # NoneVal /\ s # <<>>

\* IEEE-754 double addition on the codes above.  Of the additions the
\* scoring function can perform, 0.2 + 0.4 and 1.1 + 0.3 round one ulp above
\* the double nearest to the decimal sum; every other one is that double.
FloatAdd(s, x) ==
    s + x + (IF <<s, x>> \in {<<20, 40>>, <<110, 30>>} THEN 1 ELSE 0)

\* min(score, 1.0)
Min(a, b) == IF a < b THEN a ELSE b

----------------------------------------------------------------------------
(* core/config.py : Settings *)

\* values the environment may supply for a FRAUD_THRESHOLD_* field
\* (-10 is -0.1 and 110 is 1.1: rejected by validate_threshold)
EnvThresholds == {-10, 60, 80, 90, 110}

\* values the environment may supply for FRAUD_THRESHOLD_LOW
EnvLowThresholds == {-10, 30}


DEFAULT_FRAUD_THRESHOLD_LOW == 30
DEFAULT_FRAUD_THRESHOLD_MEDIUM == 60
DEFAULT_FRAUD_THRESHOLD_HIGH == 80
DEFAULT_FRAUD_THRESHOLD_CRITICAL == 90
DEFAULT_SUSPICIOUS_AMOUNT_THRESHOLD == 10000
DEFAULT_HIGH_AMOUNT_THRESHOLD == 5000

\* values the environment may supply for the two amount thresholds
EnvAmounts == {DEFAULT_HIGH_AMOUNT_THRESHOLD, DEFAULT_SUSPICIOUS_AMOUNT_THRESHOLD}

\* @field_validator on the four FRAUD_THRESHOLD_* fields
validate_threshold(v) == 0 <= v /\ v <= 100

\* Settings(): the values that pass validation
Settings ==
    { s \in [ FRAUD_THRESHOLD_LOW : EnvLowThresholds,
              FRAUD_THRESHOLD_MEDIUM : EnvThresholds,
              FRAUD_THRESHOLD_HIGH : EnvThresholds,
              FRAUD_THRESHOLD_CRITICAL : EnvThresholds,
              SUSPICIOUS_AMOUNT_THRESHOLD : EnvAmounts,
              HIGH_AMOUNT_THRESHOLD : EnvAmounts ] :
        /\ validate_threshold(s.FRAUD_THRESHOLD_LOW)
        /\ validate_threshold(s.FRAUD_THRESHOLD_MEDIUM)
        /\ validate_threshold(s.FRAUD_THRESHOLD_HIGH)
        /\ validate_threshold(s.FRAUD_THRESHOLD_CRITICAL) }

----------------------------------------------------------------------------
(* api/main.py : FraudDetectionRequest *)

S_gambling == <<"g","a","m","b","l","i","n","g">>
S_Gambling == <<"G","a","m","b","l","i","n","g">>
S_cryptocurrency == <<"c","r","y","p","t","o","c","u","r","r","e","n","c","y">>
S_adult_content == <<"a","d","u","l","t","_","c","o","n","t","e","n","t">>
S_retail == <<"r","e","t","a","i","l">>
S_unknown == <<"u","n","k","n","o","w","n">>
S_UNKNOWN_city == <<"U","N","K","N","O","W","N"," ","c","i","t","y">>
S_Istanbul == <<"I","s","t","a","n","b","u","l">>

TransactionIds == {"txn_1", "txn_2"}

Amounts == {5000, 5001, 10000, 10001}

Hours == {5, 6, 22, 23}

MerchantCategories == {S_retail, S_Gambling, S_cryptocurrency}

Locations == {NoneVal, <<>>, S_Istanbul, S_UNKNOWN_city}

\* the validated request bodies the handlers receive
FraudDetectionRequest ==
    [ transaction_id : TransactionIds,
      amount : Amounts,
      merchant_category : MerchantCategories,
      hour : Hours,
      location : Locations ]


----------------------------------------------------------------------------
(* api/main.py : the scoring functions *)

\* high_risk_categories
high_risk_categories == {S_gambling, S_cryptocurrency, S_adult_content}

\* hour < 6 or hour > 22
LateNight(hour) == hour < 6 \/ hour > 22

\* calculate_fraud_score with 'amount >= SUSPICIOUS_AMOUNT_THRESHOLD'
calculate_fraud_score_ge(req) ==
    LET s0 == 0
        s1 == IF req.amount >= settings.SUSPICIOUS_AMOUNT_THRESHOLD
              THEN FloatAdd(s0, 30) ELSE s0
        s2 == IF req.amount > settings.HIGH_AMOUNT_THRESHOLD
              THEN FloatAdd(s1, 20) ELSE s1
        s3 == IF LateNight(req.hour) THEN FloatAdd(s2, 20) ELSE s2
        s4 == IF Lower(req.merchant_category) \in high_risk_categories
              THEN FloatAdd(s3, 40) ELSE s3
        s5 == IF Truthy(req.location) /\ Contains(S_unknown, Lower(req.location))
              THEN FloatAdd(s4, 30) ELSE s4
    IN  Min(s5, 100)

\* calculate_fraud_score that returns score instead of min(score, 1.0)
calculate_fraud_score_unclamped(req) ==
    LET s0 == 0
        s1 == IF req.amount > settings.SUSPICIOUS_AMOUNT_THRESHOLD
              THEN FloatAdd(s0, 30) ELSE s0
        s2 == IF req.amount > settings.HIGH_AMOUNT_THRESHOLD
              THEN FloatAdd(s1, 20) ELSE s1
        s3 == IF LateNight(req.hour) THEN FloatAdd(s2, 20) ELSE s2
        s4 == IF Lower(req.merchant_category) \in high_risk_categories
              THEN FloatAdd(s3, 40) ELSE s3
        s5 == IF Truthy(req.location) /\ Contains(S_unknown, Lower(req.location))
              THEN FloatAdd(s4, 30) ELSE s4
    IN  s5

\* calculate_fraud_score with 'score = 0.4' for 'score += 0.4'
calculate_fraud_score_assign(req) ==
    LET s0 == 0
        s1 == IF req.amount > settings.SUSPICIOUS_AMOUNT_THRESHOLD
              THEN FloatAdd(s0, 30) ELSE s0
        s2 == IF req.amount > settings.HIGH_AMOUNT_THRESHOLD
              THEN FloatAdd(s1, 20) ELSE s1
        s3 == IF LateNight(req.hour) THEN FloatAdd(s2, 20) ELSE s2
        s4 == IF Lower(req.merchant_category) \in high_risk_categories
              THEN 40 ELSE s3
        s5 == IF Truthy(req.location) /\ Contains(S_unknown, Lower(req.location))
              THEN FloatAdd(s4, 30) ELSE s4
    IN  Min(s5, 100)

\* calculate_fraud_score(request)
calculate_fraud_score(req) ==
    LET s0 == 0
        s1 == IF req.amount > settings.SUSPICIOUS_AMOUNT_THRESHOLD
              THEN FloatAdd(s0, 30) ELSE s0
        s2 == IF req.amount > settings.HIGH_AMOUNT_THRESHOLD
              THEN FloatAdd(s1, 20) ELSE s1
        s3 == IF LateNight(req.hour) THEN FloatAdd(s2, 20) ELSE s2
        s4 == IF Lower(req.merchant_category) \in high_risk_categories
              THEN FloatAdd(s3, 40) ELSE s3
        s5 == IF Truthy(req.location) /\ Contains(S_unknown, Lower(req.location))
              THEN FloatAdd(s4, 30) ELSE s4
    IN  Min(s5, 100)

\* the risk level tested with > instead of >=
risk_level_strict(fraud_score) ==
    IF fraud_score > settings.FRAUD_THRESHOLD_CRITICAL THEN "CRITICAL"
    ELSE IF fraud_score > settings.FRAUD_THRESHOLD_HIGH THEN "HIGH"
    ELSE IF fraud_score > settings.FRAUD_THRESHOLD_MEDIUM THEN "MEDIUM"
    ELSE "LOW"

\* the risk level with the labels of the two middle branches exchanged
risk_level_swapped(fraud_score) ==
    IF fraud_score >= settings.FRAUD_THRESHOLD_CRITICAL THEN "CRITICAL"
    ELSE IF fraud_score >= settings.FRAUD_THRESHOLD_HIGH THEN "MEDIUM"
    ELSE IF fraud_score >= settings.FRAUD_THRESHOLD_MEDIUM THEN "HIGH"
    ELSE "LOW"

\* detect_fraud: "Determine risk level"
risk_level(fraud_score) ==
    IF fraud_score >= settings.FRAUD_THRESHOLD_CRITICAL THEN "CRITICAL"
    ELSE IF fraud_score >= settings.FRAUD_THRESHOLD_HIGH THEN "HIGH"
    ELSE IF fraud_score >= settings.FRAUD_THRESHOLD_MEDIUM THEN "MEDIUM"
    ELSE "LOW"

\* fraud_score >= settings.FRAUD_THRESHOLD_MEDIUM
is_fraud(fraud_score) == fraud_score >= settings.FRAUD_THRESHOLD_MEDIUM

\* generate_reasons with 'fraud_score >= FRAUD_THRESHOLD_HIGH'
generate_reasons_ge(req, fraud_score) ==
    LET r0 == <<>>
        r1 == IF req.amount > settings.SUSPICIOUS_AMOUNT_THRESHOLD
              THEN Append(r0, "High transaction amount") ELSE r0
        r2 == IF LateNight(req.hour)
              THEN Append(r1, "Unusual transaction time") ELSE r1
        r3 == IF fraud_score >= settings.FRAUD_THRESHOLD_HIGH
              THEN Append(r2, "Multiple risk factors detected") ELSE r2
    IN  IF r3 = <<>> THEN Append(r3, "Transaction appears normal") ELSE r3

\* generate_reasons(request, fraud_score)
generate_reasons(req, fraud_score) ==
    LET r0 == <<>>
        r1 == IF req.amount > settings.SUSPICIOUS_AMOUNT_THRESHOLD
              THEN Append(r0, "High transaction amount") ELSE r0
        r2 == IF LateNight(req.hour)
              THEN Append(r1, "Unusual transaction time") ELSE r1
        r3 == IF fraud_score > settings.FRAUD_THRESHOLD_HIGH
              THEN Append(r2, "Multiple risk factors detected") ELSE r2
    IN  IF r3 = <<>> THEN Append(r3, "Transaction appears normal") ELSE r3

\* generate_recommendations(risk_level)
generate_recommendations(level) ==
    IF level = "CRITICAL"
    THEN << "Block transaction immediately",
            "Contact customer via secure channel",
            "Review recent account activity" >>
    ELSE IF level = "HIGH"
    THEN << "Require additional authentication",
            "Review transaction details manually",
            "Monitor future transactions closely" >>
    ELSE IF level = "MEDIUM"
    THEN << "Consider additional verification",
            "Log transaction for review" >>
    ELSE << "Process transaction normally" >>

\* FraudDetectionResponse(...) built by detect_fraud
FraudDetectionResponse(req) ==
    LET fraud_score == calculate_fraud_score(req)
        level == risk_level(fraud_score)
    IN  [ transaction_id |-> req.transaction_id,
          fraud_score |-> fraud_score,
          is_fraud |-> is_fraud(fraud_score),
          risk_level |-> level,
          reasons |-> generate_reasons(req, fraud_score),
          recommendations |-> generate_recommendations(level) ]

\* the dict detect_fraud_batch appends for one request
BatchItem(req) ==
    LET fraud_score == calculate_fraud_score(req)
    IN  [ transaction_id |-> req.transaction_id,
          fraud_score |-> fraud_score,
          is_fraud |-> is_fraud(fraud_score) ]

\* the for loop with results.insert(0, ...) for results.append(...)
BatchResults_reversed(reqs) ==
    [i \in 1..Len(reqs) |-> BatchItem(reqs[Len(reqs) + 1 - i])]

\* the for loop of detect_fraud_batch: one dict appended per request, in the
\* order of the requests
BatchResults(reqs) == [i \in 1..Len(reqs) |-> BatchItem(reqs[i])]

\* the batch size limit of detect_fraud_batch
MAX_BATCH_SIZE == 100

\* the size test with >= instead of >
BatchTooLarge_ge(reqs) == Len(reqs) >= MAX_BATCH_SIZE

\* len(requests) > 100
BatchTooLarge(reqs) == Len(reqs) > MAX_BATCH_SIZE

----------------------------------------------------------------------------
(* The handlers *)

\* POST /api/v1/fraud/detect.  raised: an exception is raised inside the try
\* block while the request is scored; the handler turns it into a 500.
DetectFraudOn(req, raised) ==
    /\ op = "none"
    /\ op' = "detect_fraud"
    /\ request' = req
    /\ requests' = <<>>
    /\ results' = <<>>
    /\ evaluated' = 1
    /\ IF raised
       THEN /\ status' = 500
            /\ response' = <<>>
       ELSE /\ status' = 200
            /\ response' = FraudDetectionResponse(req)
    /\ UNCHANGED <<settings, corrVars>>

DetectFraud ==
    /\ op = "none"
    /\ \E req \in FraudDetectionRequest, raised \in BOOLEAN :
           DetectFraudOn(req, raised)

\* POST /api/v1/fraud/detect/batch.  fault: the index of the item whose
\* scoring raises an exception (0: none does).  The loop has no handler, so
\* the exception leaves detect_fraud_batch and the results built so far are
\* dropped with it.
DetectFraudBatchOn(reqs, fault) ==
    /\ op = "none"
    /\ op' = "detect_fraud_batch"
    /\ request' = <<>>
    /\ requests' = reqs
    /\ response' = <<>>
    /\ IF BatchTooLarge(reqs)
       THEN /\ status' = 400
            /\ results' = <<>>
            /\ evaluated' = 0
       ELSE IF fault \in 1..Len(reqs)
       THEN /\ status' = 500
            /\ results' = <<>>
            /\ evaluated' = fault
       ELSE /\ status' = 200
            /\ results' = BatchResults(reqs)
            /\ evaluated' = Len(reqs)
    /\ UNCHANGED <<settings, corrVars>>

\* the request bodies batches are built from
BatchPool ==
    << [transaction_id |-> "txn_1", amount |-> 5000, merchant_category |-> S_retail,
        hour |-> 6, location |-> S_Istanbul],
       [transaction_id |-> "txn_2", amount |-> 10001, merchant_category |-> S_Gambling,
        hour |-> 5, location |-> S_UNKNOWN_city],
       [transaction_id |-> "txn_1", amount |-> 5001, merchant_category |-> S_retail,
        hour |-> 23, location |-> NoneVal],
       [transaction_id |-> "txn_1", amount |-> 10000, merchant_category |-> S_cryptocurrency,
        hour |-> 22, location |-> <<>>],
       [transaction_id |-> "txn_2", amount |-> 10001, merchant_category |-> S_retail,
        hour |-> 22, location |-> S_UNKNOWN_city] >>

BatchSizes == (0..SmallBatch) \cup {MAX_BATCH_SIZE, MAX_BATCH_SIZE + 1}

\* the batch of n requests that walks BatchPool from start in steps of stride
Batch(n, start, stride) ==
    [i \in 1..n |-> BatchPool[((start + (i - 1) * stride) % Len(BatchPool)) + 1]]

BatchInputs ==
    { Batch(n, start, stride) :
        n \in BatchSizes, start \in 0..(Len(BatchPool) - 1), stride \in 0..1 }

DetectFraudBatch ==
    /\ op = "none"
    /\ \E reqs \in BatchInputs :
           \E fault \in 0..Min(Len(reqs), MaxFaultPos) :
               DetectFraudBatchOn(reqs, fault)

\* the response has been sent: the locals of the handler are gone and the
\* service waits for the next request
SendResponse ==
    /\ op # "none"
    /\ op' = "none"
    /\ request' = <<>>
    /\ requests' = <<>>
    /\ status' = 0
    /\ response' = <<>>
    /\ results' = <<>>
    /\ evaluated' = 0
    /\ UNCHANGED <<settings, corrVars>>

----------------------------------------------------------------------------
(* api/main.py : the middleware add_correlation_id *)

Requests == 1..MaxRequests

\* the values uuid.uuid4() can return; one more than there are requests
UUIDs == 1..(MaxRequests + 1)

\* no identifier (the variable is unset, the body carries none)
NoId == 0

\* get_correlation_id(): str(uuid.uuid4()), a value not returned before
get_correlation_id == UUIDs \ issued

\* all requests writing to one state object (an application-wide state)
request_state_shared(r) == 1

\* request.state: the state object of request r is its own
request_state(r) == r

\* the bodies the two endpoints return: the response of detect_fraud, the
\* dict of detect_fraud_batch, or the detail of an HTTPException
Endpoints == {"detect_fraud", "detect_fraud_batch"}

Outcomes(endpoint) ==
    IF endpoint = "detect_fraud" THEN {200, 500} ELSE {200, 400}

Body(endpoint, code, cid) ==
    [ endpoint |-> endpoint,
      status |-> code,
      correlation_id |-> IF code = 200 THEN cid ELSE NoId ]

NoBody == [endpoint |-> "none", status |-> 0, correlation_id |-> NoId]

CorrInit ==
    /\ mw_pc = [r \in Requests |-> "received"]
    /\ correlation_id = [r \in Requests |-> NoId]
    /\ state_cid = [r \in Requests |-> NoId]
    /\ body = [r \in Requests |-> NoBody]
    /\ header = [r \in Requests |-> NoId]
    /\ issued = {}

\* add_correlation_id up to 'await call_next(request)'
AddCorrelationId(r) ==
    /\ mw_pc[r] = "received"
    /\ \E u \in get_correlation_id :
          /\ correlation_id' = [correlation_id EXCEPT ![r] = u]
          /\ state_cid' = [state_cid EXCEPT ![request_state(r)] = u]
          /\ issued' = issued \cup {u}
    /\ mw_pc' = [mw_pc EXCEPT ![r] = "awaiting"]
    /\ UNCHANGED <<body, header, svcVars>>

\* call_next(request): the endpoint runs without suspending; it reads
\* http_request.state.correlation_id and puts it in the body it returns
CallNext(r) ==
    /\ mw_pc[r] = "awaiting"
    /\ \E endpoint \in Endpoints :
          \E code \in Outcomes(endpoint) :
              body' = [body EXCEPT
                          ![r] = Body(endpoint, code, state_cid[request_state(r)])]
    /\ mw_pc' = [mw_pc EXCEPT ![r] = "returned"]
    /\ UNCHANGED <<correlation_id, state_cid, header, issued, svcVars>>

\* add_correlation_id after call_next: response.headers["X-Correlation-ID"]
SetHeaders(r) ==
    /\ mw_pc[r] = "returned"
    /\ header' = [header EXCEPT ![r] = correlation_id[r]]
    /\ mw_pc' = [mw_pc EXCEPT ![r] = "sent"]
    /\ UNCHANGED <<correlation_id, state_cid, body, issued, svcVars>>

\* Settings() with no environment override
DefaultSettings ==
    [ FRAUD_THRESHOLD_LOW |-> DEFAULT_FRAUD_THRESHOLD_LOW,
      FRAUD_THRESHOLD_MEDIUM |-> DEFAULT_FRAUD_THRESHOLD_MEDIUM,
      FRAUD_THRESHOLD_HIGH |-> DEFAULT_FRAUD_THRESHOLD_HIGH,
      FRAUD_THRESHOLD_CRITICAL |-> DEFAULT_FRAUD_THRESHOLD_CRITICAL,
      SUSPICIOUS_AMOUNT_THRESHOLD |-> DEFAULT_SUSPICIOUS_AMOUNT_THRESHOLD,
      HIGH_AMOUNT_THRESHOLD |-> DEFAULT_HIGH_AMOUNT_THRESHOLD ]

(* Concurrent requests through the middleware, under the default settings *)

InitCorr ==
    /\ settings = DefaultSettings
    /\ op = "none"
    /\ request = <<>>
    /\ requests = <<>>
    /\ status = 0
    /\ response = <<>>
    /\ results = <<>>
    /\ evaluated = 0
    /\ CorrInit

NextCorr ==
    \E r \in Requests : AddCorrelationId(r) \/ CallNext(r) \/ SetHeaders(r)

SpecCorr == InitCorr /\ [][NextCorr]_vars

----------------------------------------------------------------------------
(* The service: settings are loaded once, then requests are served *)

Init ==
    /\ settings \in Settings
    /\ op = "none"
    /\ request = <<>>
    /\ requests = <<>>
    /\ status = 0
    /\ response = <<>>
    /\ results = <<>>
    /\ evaluated = 0
    /\ CorrInit

Next == DetectFraud \/ DetectFraudBatch \/ SendResponse

Spec == Init /\ [][Next]_vars

(* Scoring of pairs of requests: every two request bodies in one batch *)

\* settings that differ in the amount thresholds only
AmountSettings ==
    { s \in Settings :
        /\ s.FRAUD_THRESHOLD_LOW = DEFAULT_FRAUD_THRESHOLD_LOW
        /\ s.FRAUD_THRESHOLD_MEDIUM = DEFAULT_FRAUD_THRESHOLD_MEDIUM
        /\ s.FRAUD_THRESHOLD_HIGH = DEFAULT_FRAUD_THRESHOLD_HIGH
        /\ s.FRAUD_THRESHOLD_CRITICAL = DEFAULT_FRAUD_THRESHOLD_CRITICAL }

InitPairs ==
    /\ settings \in AmountSettings
    /\ op = "none"
    /\ request = <<>>
    /\ requests = <<>>
    /\ status = 0
    /\ response = <<>>
    /\ results = <<>>
    /\ evaluated = 0
    /\ CorrInit

DetectFraudPair ==
    /\ op = "none"
    /\ \E r1, r2 \in FraudDetectionRequest :
           /\ r1.transaction_id = "txn_1"
           /\ r2.transaction_id = "txn_2"
           /\ DetectFraudBatchOn(<<r1, r2>>, 0)

NextPairs == DetectFraudPair \/ SendResponse

SpecPairs == InitPairs /\ [][NextPairs]_vars

----------------------------------------------------------------------------
(* Properties *)

\* a single request was answered / a batch was answered with results
SingleDone == op = "detect_fraud" /\ status = 200
BatchDone == op = "detect_fraud_batch" /\ status = 200

\* the five risk signals, in the order the contributions are added
Signals == <<"amount_suspicious", "amount_high", "late_night",
             "category", "location">>

Contribution ==
    [ amount_suspicious |-> 30, amount_high |-> 20, late_night |-> 20,
      category |-> 40, location |-> 30 ]

Triggers(req, signal) ==
    CASE signal = "amount_suspicious" ->
            req.amount > settings.SUSPICIOUS_AMOUNT_THRESHOLD
      [] signal = "amount_high" ->
            req.amount > settings.HIGH_AMOUNT_THRESHOLD
      [] signal = "late_night" ->
            req.hour \in {0, 1, 2, 3, 4, 5, 23}
      [] signal = "category" ->
            \E c \in {S_gambling, S_cryptocurrency, S_adult_content} :
                Lower(req.merchant_category) = c
      [] signal = "location" ->
            /\ req.location # NoneVal
            /\ \E i \in 1..Len(req.location) :
                   /\ i + 6 <= Len(req.location)
                   /\ \A k \in 0..6 :
                          Lower(req.location)[i + k] = S_unknown[k + 1]

Triggered(req) == { k \in 1..Len(Signals) : Triggers(req, Signals[k]) }

\* the sum of the contributions of the triggered signals among the first k
RECURSIVE SumTriggered(_, _)
SumTriggered(req, k) ==
    IF k = 0 THEN 0
    ELSE IF k \in Triggered(req)
         THEN FloatAdd(SumTriggered(req, k - 1), Contribution[Signals[k]])
         ELSE SumTriggered(req, k - 1)

ExpectedScore(req) ==
    IF SumTriggered(req, Len(Signals)) <= 100
    THEN SumTriggered(req, Len(Signals)) ELSE 100

ScoredAsExpected(req, fraud_score) ==
    /\ fraud_score = ExpectedScore(req)
    /\ Triggered(req) = {} => fraud_score = 0
    /\ Triggered(req) = 1..Len(Signals) => fraud_score = 100

\* C1: the score of every answered transaction, single or in a batch, is
\* min(S, 1.0) with S the sum of the contributions of exactly the triggered
\* signals; no signal gives 0.0 and all five give 1.0.
C1_ScoreIsClampedSum ==
    /\ SingleDone => ScoredAsExpected(request, response.fraud_score)
    /\ BatchDone =>
          \A i \in 1..Len(requests) :
              ScoredAsExpected(requests[i], results[i].fraud_score)

\* a transaction that triggers all five signals was scored
C1_Witness ==
    /\ SingleDone
    /\ Triggered(request) = 1..Len(Signals)
    /\ response.fraud_score = 100

\* C2: every fraud_score carried in a single or batch result lies in
\* [0.0, 1.0].
C2_ScoreBounded ==
    /\ SingleDone => response.fraud_score >= 0 /\ response.fraud_score <= 100
    /\ BatchDone =>
          \A i \in 1..Len(results) :
              results[i].fraud_score >= 0 /\ results[i].fraud_score <= 100

\* a transaction whose contributions sum to more than 1.0 was scored
C2_Witness ==
    /\ SingleDone
    /\ SumTriggered(request, Len(Signals)) > 100
    /\ response.fraud_score = 100

\* C3: of two transactions scored under the same settings, the one that
\* triggers a superset of the other's signals has a score at least as high.
C3_ScoreMonotone ==
    BatchDone =>
        \A i, j \in 1..Len(requests) :
            Triggered(requests[i]) \subseteq Triggered(requests[j])
                => results[i].fraud_score <= results[j].fraud_score

\* two transactions that differ only by an amount raised past a threshold
C3_Witness ==
    /\ BatchDone
    /\ Len(requests) = 2
    /\ requests[1].amount < requests[2].amount
    /\ requests[1].hour = requests[2].hour
    /\ requests[1].merchant_category = requests[2].merchant_category
    /\ requests[1].location = requests[2].location
    /\ Triggered(requests[1]) # Triggered(requests[2])
    /\ Triggered(requests[1]) \subseteq Triggered(requests[2])
    /\ results[1].fraud_score < results[2].fraud_score

Tiers == {"LOW", "MEDIUM", "HIGH", "CRITICAL"}

TierRank(tier) ==
    CASE tier = "LOW" -> 0
      [] tier = "MEDIUM" -> 1
      [] tier = "HIGH" -> 2
      [] tier = "CRITICAL" -> 3

\* every double code in [0.0, 1.0] the model can write
Scores == 0..100

\* the tier the boundaries give a score, tested from the highest down
TierIs(score, tier) ==
    LET c == score >= settings.FRAUD_THRESHOLD_CRITICAL
        h == score >= settings.FRAUD_THRESHOLD_HIGH
        m == score >= settings.FRAUD_THRESHOLD_MEDIUM
    IN  /\ tier \in Tiers
        /\ tier = "CRITICAL" <=> c
        /\ tier = "HIGH" <=> ~c /\ h
        /\ tier = "MEDIUM" <=> ~c /\ ~h /\ m
        /\ tier = "LOW" <=> ~c /\ ~h /\ ~m

\* C4: the tier of an answered transaction, and the tier of every score in
\* [0,1], is the first of CRITICAL, HIGH, MEDIUM whose boundary the score
\* reaches (>=), else LOW; a score equal to a boundary gets the higher tier.
C4_TierByBoundaries ==
    /\ SingleDone => TierIs(response.fraud_score, response.risk_level)
    /\ op = "none" => \A s \in Scores : TierIs(s, risk_level(s))

\* a score exactly on the HIGH boundary, below CRITICAL, was classified HIGH
C4_Witness ==
    /\ SingleDone
    /\ response.fraud_score = settings.FRAUD_THRESHOLD_HIGH
    /\ response.fraud_score < settings.FRAUD_THRESHOLD_CRITICAL
    /\ response.risk_level = "HIGH"

\* C5: tiers preserve the order of scores: a score above the score of an
\* answered transaction is classified at least as high as the transaction,
\* and a score below it at most as high.
C5_TierMonotone ==
    SingleDone =>
        \A s \in Scores :
            /\ s > response.fraud_score =>
                  TierRank(risk_level(s)) >= TierRank(response.risk_level)
            /\ s < response.fraud_score =>
                  TierRank(risk_level(s)) <= TierRank(response.risk_level)

\* a transaction classified HIGH with a lower tier below and a higher above
C5_Witness ==
    /\ SingleDone
    /\ response.risk_level = "HIGH"
    /\ \E s \in Scores : s < response.fraud_score /\ risk_level(s) = "LOW"
    /\ \E s \in Scores : s > response.fraud_score /\ risk_level(s) = "CRITICAL"

\* C6: in every single result and every batch item is_fraud is true exactly
\* when fraud_score >= the MEDIUM boundary, and so exactly when the tier of
\* the result is MEDIUM, HIGH or CRITICAL.
C6_IsFraudIffTier ==
    /\ SingleDone =>
          /\ response.is_fraud
                <=> response.fraud_score >= settings.FRAUD_THRESHOLD_MEDIUM
          /\ response.is_fraud
                <=> response.risk_level \in {"MEDIUM", "HIGH", "CRITICAL"}
    /\ BatchDone =>
          \A i \in 1..Len(results) :
              results[i].is_fraud
                  <=> results[i].fraud_score >= settings.FRAUD_THRESHOLD_MEDIUM

\* <<x>> if cond else <<>>
When(cond, x) == IF cond THEN <<x>> ELSE <<>>

ExpectedReasons(req, fraud_score) ==
    LET qualifying ==
            When(req.amount > settings.SUSPICIOUS_AMOUNT_THRESHOLD,
                 "High transaction amount")
            \o When(req.hour \in {0, 1, 2, 3, 4, 5, 23},
                    "Unusual transaction time")
            \o When(fraud_score > settings.FRAUD_THRESHOLD_HIGH,
                    "Multiple risk factors detected")
    IN  IF Len(qualifying) = 0
        THEN <<"Transaction appears normal">> ELSE qualifying

\* C7: the reasons of an answered transaction are, in this order, the amount
\* reason iff amount > suspiciousAmount, the time reason iff the hour is < 6
\* or > 22, the composite reason iff fraud_score > the HIGH boundary, or the
\* sentinel alone iff none qualifies; never empty, never a duplicate.
C7_Reasons ==
    SingleDone =>
        /\ response.reasons = ExpectedReasons(request, response.fraud_score)
        /\ Len(response.reasons) >= 1
        /\ \A i, j \in 1..Len(response.reasons) :
               response.reasons[i] = response.reasons[j] => i = j
        /\ (\E i \in 1..Len(response.reasons) :
               response.reasons[i] = "Transaction appears normal")
               => Len(response.reasons) = 1

\* the composite reason alone: the score is above HIGH though neither the
\* amount reason nor the time reason qualifies
C7_Witness ==
    /\ SingleDone
    /\ response.reasons = <<"Multiple risk factors detected">>
    /\ request.amount <= settings.SUSPICIOUS_AMOUNT_THRESHOLD
    /\ request.hour \in 6..22

\* C8: a batch of more than 100 requests is rejected before any request is
\* scored and without results; a batch of 100 or fewer is not rejected.
C8_BatchCeiling ==
    op = "detect_fraud_batch" =>
        /\ Len(requests) > 100 =>
              status = 400 /\ results = <<>> /\ evaluated = 0
        /\ Len(requests) <= 100 => status # 400

\* a batch of 101 requests was rejected
C8_Witness ==
    /\ op = "detect_fraud_batch"
    /\ Len(requests) = 101
    /\ status = 400

\* C9: the results of an accepted batch are aligned with its requests: as
\* many results as requests, and the i-th result carries the transaction_id
\* of the i-th request.
C9_BatchAligned ==
    BatchDone =>
        /\ Len(results) = Len(requests)
        /\ \A i \in 1..Len(requests) :
               results[i].transaction_id = requests[i].transaction_id

\* a batch whose requests carry different transaction ids was answered
C9_Witness ==
    /\ BatchDone
    /\ Len(requests) >= 2
    /\ requests[1].transaction_id # requests[Len(requests)].transaction_id
    /\ Len(results) = Len(requests)

\* C10: a batch that is not rejected for its size has one result per request
\* and every request is evaluated, also when scoring one of them fails.
C10_FailureIsolated ==
    (op = "detect_fraud_batch" /\ Len(requests) <= 100) =>
        /\ Len(results) = Len(requests)
        /\ evaluated = Len(requests)

\* the item carries every outcome field of the single response, with the
\* value the single-transaction operation gives the same request
SameOutcome(item, single) ==
    /\ item.transaction_id = single.transaction_id
    /\ item.fraud_score = single.fraud_score
    /\ item.is_fraud = single.is_fraud
    /\ \A f \in {"risk_level", "reasons", "recommendations"} :
           f \in DOMAIN item /\ item[f] = single[f]

\* C11: every item of an accepted batch result is the outcome the
\* single-transaction operation produces for the same request: the same
\* fraud_score, is_fraud, risk tier, reasons and recommendations.
C11_BatchItemIsSingleOutcome ==
    BatchDone =>
        \A i \in 1..Len(results) :
            SameOutcome(results[i], FraudDetectionResponse(requests[i]))

\* C13: whenever a request is scored, the settings it is scored with have
\* ordered tier boundaries, low <= medium <= high <= critical, because
\* loading any other settings fails.
C13_BoundariesOrdered ==
    op \in {"detect_fraud", "detect_fraud_batch"} =>
    /\ settings.FRAUD_THRESHOLD_LOW <= settings.FRAUD_THRESHOLD_MEDIUM
    /\ settings.FRAUD_THRESHOLD_MEDIUM <= settings.FRAUD_THRESHOLD_HIGH
    /\ settings.FRAUD_THRESHOLD_HIGH <= settings.FRAUD_THRESHOLD_CRITICAL

\* C12: every request gets a fresh correlation identifier before its
\* endpoint runs, and under any interleaving of requests the correlation_id
\* in its body and in its X-Correlation-ID header is the identifier generated
\* for that request, which no other request was given.
C12_OwnCorrelationId ==
    \A r \in Requests :
        /\ mw_pc[r] \in {"awaiting", "returned", "sent"} =>
              /\ correlation_id[r] \in issued
              /\ \A q \in Requests \ {r} : correlation_id[q] # correlation_id[r]
        /\ (mw_pc[r] \in {"returned", "sent"} /\ body[r].status = 200) =>
              body[r].correlation_id = correlation_id[r]
        /\ mw_pc[r] = "sent" => header[r] = correlation_id[r]

\* a request was answered with its identifier in body and header while
\* another request, given another identifier, still awaits its endpoint
C12_Witness ==
    \E r, q \in Requests :
        /\ r # q
        /\ mw_pc[r] = "sent"
        /\ body[r].status = 200
        /\ body[r].correlation_id = header[r]
        /\ mw_pc[q] = "awaiting"
        /\ correlation_id[q] # header[r]

=============================================================================
